---- MODULE Spec2Model ----
(***************************************************************************)
(* A model of graphql-core's field collection (execution/collect_fields.py)*)
(* and of the GraphQLError value type as exercised by its tests            *)
(* (tests/error/test_graphql_error.py).                                    *)
(*                                                                         *)
(* collect_fields is a recursive Python function.  It is modelled as a     *)
(* state machine over an explicit call stack: one frame per active call,   *)
(* one action per kind of selection the loop of line 44 handles, and one   *)
(* action for the return of a call.                                        *)
(***************************************************************************)
EXTENDS Integers, Sequences, FiniteSets, TLC

VARIABLES
    selection_sets,          \* the document: selection-set id -> its selections
    fragments,               \* Dict[str, FragmentDefinitionNode]
    runtime_type,            \* GraphQLObjectType
    fields,                  \* Dict[str, List[FieldNode]], in insertion order
    visited_fragment_names,  \* Set[str]
    stack,                   \* active calls of collect_fields, innermost last
    error,                   \* the exception that left collect_fields, or None
    collected,               \* history: the field nodes appended, in order
    expanded,                \* history: the fragment names whose body was entered
    excluded,                \* history: the spread names dropped by directives
    last,                    \* history: what the last step evaluated
    errs,                    \* the GraphQLError objects under test
    heap,                    \* the Python list objects the errors' paths refer to
    built,                   \* the constructor arguments of each error
    mutated                  \* history: the last in-place mutation of a path

vars == <<selection_sets, fragments, runtime_type, fields, visited_fragment_names,
          stack, error, collected, expanded, excluded, last,
          errs, heap, built, mutated>>

collectVars == <<selection_sets, fragments, runtime_type, fields,
                 visited_fragment_names, stack, error, collected, expanded,
                 excluded, last>>

errorVars == <<errs, heap, built, mutated>>

\* Python's None.
None == <<>>

(***************************************************************************)
(* Bounds.                                                                 *)
(***************************************************************************)
\* Longest top-level selection set drawn from the selection alphabet.
MaxLen == 3
\* Deepest call stack explored (the code needs at most one frame per
\* fragment and inline fragment of the document, plus one).
MaxDepth == 7

(***************************************************************************)
(* The schema: two object types, an interface both implement and a union   *)
(* holding only one of them.                                               *)
(***************************************************************************)
schema ==
    [type_map |->
        [Dog    |-> [kind |-> "object",    name |-> "Dog",    possible_types |-> {}],
         Cat    |-> [kind |-> "object",    name |-> "Cat",    possible_types |-> {}],
         Pet    |-> [kind |-> "interface", name |-> "Pet",    possible_types |-> {"Dog", "Cat"}],
         Feline |-> [kind |-> "union",     name |-> "Feline", possible_types |-> {"Cat"}]]]

ObjectTypes == {t \in {schema.type_map[n] : n \in DOMAIN schema.type_map} : t.kind = "object"}

\* utilities/type_from_ast.py: the named type of the schema, or None.
type_from_ast(s, type_node) ==
    IF type_node.name.value \in DOMAIN s.type_map
    THEN s.type_map[type_node.name.value]
    ELSE None

\* type/definition.py: interfaces and unions are the abstract types.
is_abstract_type(type_) ==
    type_ # None /\ type_.kind \in {"interface", "union"}

\* GraphQLSchema.is_sub_type for an object type: it is a possible type.
is_sub_type(s, abstract_type, maybe_sub_type) ==
    maybe_sub_type.name \in s.type_map[abstract_type.name].possible_types

(***************************************************************************)
(* AST nodes.  A node is identified by where it stands: the selection set  *)
(* holding it and its index there.                                         *)
(***************************************************************************)
NameNode(v) == [value |-> v]

NamedTypeNode(v) == [name |-> NameNode(v)]

DirectiveNode(n, b) == [name |-> NameNode(n), arguments |-> [if |-> b]]

FieldNode(alias, name, directives) ==
    [kind |-> "field", alias |-> alias, name |-> NameNode(name),
     directives |-> directives, type_condition |-> None, selection_set |-> None]

InlineFragmentNode(type_condition, directives, set) ==
    [kind |-> "inline_fragment", alias |-> None, name |-> None,
     directives |-> directives, type_condition |-> type_condition,
     selection_set |-> [ref |-> set]]

FragmentSpreadNode(name, directives) ==
    [kind |-> "fragment_spread", alias |-> None, name |-> NameNode(name),
     directives |-> directives, type_condition |-> None, selection_set |-> None]

FragmentDefinitionNode(name, type_condition, set) ==
    [kind |-> "fragment_definition", name |-> NameNode(name),
     type_condition |-> type_condition, selection_set |-> [ref |-> set]]

NodeRef(set, idx) == [set |-> set, idx |-> idx]

GraphQLSkipDirective == [name |-> "skip"]

GraphQLIncludeDirective == [name |-> "include"]

variable_values == [flag |-> TRUE]

\* execution/values.py: the argument values of the directive on the node,
\* or None when the node does not carry the directive.
get_directive_values(directive_def, node, variables) ==
    LET at == {i \in 1..Len(node.directives) :
                  node.directives[i].name.value = directive_def.name}
    IN  IF at = {} THEN None
        ELSE node.directives[CHOOSE i \in at : \A j \in at : i <= j].arguments

(***************************************************************************)
(* collect_fields.py, lines 88-127.                                        *)
(***************************************************************************)
\* A variant in which @include(if: true) is looked at first and wins.
should_include_node_include_first(variables, node) ==
    LET skip == get_directive_values(GraphQLSkipDirective, node, variables)
        include == get_directive_values(GraphQLIncludeDirective, node, variables)
    IN  IF include # None THEN include["if"]
        ELSE IF skip # None /\ skip["if"] THEN FALSE
        ELSE TRUE

should_include_node(variables, node) ==
    LET skip == get_directive_values(GraphQLSkipDirective, node, variables)
        include == get_directive_values(GraphQLIncludeDirective, node, variables)
    IN  IF skip # None /\ skip["if"] THEN FALSE
        ELSE IF include # None /\ ~include["if"] THEN FALSE
        ELSE TRUE

\* A variant without the abstract-type branch of lines 120-121.
does_fragment_condition_match_concrete_only(s, fragment, type_) ==
    LET type_condition_node == fragment.type_condition
        conditional_type == type_from_ast(s, type_condition_node)
    IN  IF type_condition_node = None THEN TRUE
        ELSE IF conditional_type = type_ THEN TRUE
        ELSE FALSE

does_fragment_condition_match(s, fragment, type_) ==
    LET type_condition_node == fragment.type_condition
        conditional_type == type_from_ast(s, type_condition_node)
    IN  IF type_condition_node = None THEN TRUE
        ELSE IF conditional_type = type_ THEN TRUE
        ELSE IF is_abstract_type(conditional_type)
             THEN is_sub_type(s, conditional_type, type_)
        ELSE FALSE

get_field_entry_key(node) ==
    IF node.alias # None THEN node.alias.value ELSE node.name.value

(***************************************************************************)
(* Python dict and set operations used by collect_fields.  A dict is the   *)
(* sequence of its items in insertion order.                               *)
(***************************************************************************)
dict_keys(d) == [i \in 1..Len(d) |-> d[i].key]

dict_has(d, k) == \E i \in 1..Len(d) : d[i].key = k

dict_at(d, k) == d[CHOOSE i \in 1..Len(d) : d[i].key = k].value

\* A variant that re-inserts the key at the end when it is already present.
setdefault_append_moves_key(d, k, v) ==
    IF dict_has(d, k)
    THEN SelectSeq(d, LAMBDA item : item.key # k)
         \o <<[key |-> k, value |-> Append(dict_at(d, k), v)]>>
    ELSE Append(d, [key |-> k, value |-> <<v>>])

\* fields.setdefault(name, []).append(selection), line 49
setdefault_append(d, k, v) ==
    IF dict_has(d, k)
    THEN [i \in 1..Len(d) |->
             IF d[i].key = k THEN [d[i] EXCEPT !.value = Append(@, v)] ELSE d[i]]
    ELSE Append(d, [key |-> k, value |-> <<v>>])

\* A variant that subscripts the dict: fragments[frag_name].
fragments_getitem(frags, frag_name) ==
    IF frag_name \in DOMAIN frags THEN frags[frag_name]
    ELSE [exception |-> "KeyError"]

\* fragments.get(frag_name), line 71
fragments_get(frags, frag_name) ==
    IF frag_name \in DOMAIN frags THEN frags[frag_name] ELSE None

\* A variant that loses the name.
visited_add_nothing(visited, frag_name) == visited

\* visited_fragment_names.add(frag_name), line 70
visited_add(visited, frag_name) == visited \cup {frag_name}

IsException(v) == v # None /\ "exception" \in DOMAIN v

\* A variant that evaluates the directives before looking at the visited set.
spread_guard_directives_first(visited, node) ==
    IF ~should_include_node(variable_values, node)
    THEN [continue |-> TRUE, evaluated |-> <<"should_include_node">>]
    ELSE [continue |-> node.name.value \in visited,
          evaluated |-> <<"should_include_node", "in_visited">>]

\* A variant that never looks at the visited set.
spread_guard_ignores_visited(visited, node) ==
    [continue |-> ~should_include_node(variable_values, node),
     evaluated |-> <<"should_include_node">>]

\* Line 66: "in visited" is evaluated first and short-circuits the "or".
spread_guard(visited, node) ==
    IF node.name.value \in visited
    THEN [continue |-> TRUE, evaluated |-> <<"in_visited">>]
    ELSE [continue |-> ~should_include_node(variable_values, node),
          evaluated |-> <<"in_visited", "should_include_node">>]

\* A variant that adds the name before the guard of line 66.
spread_visited_marks_first(visited, node) ==
    visited_add(visited, node.name.value)

\* Lines 66-70: the visited set after the guard; a spread that continues at
\* line 69 never reaches the add of line 70.
spread_visited(visited, node) ==
    IF spread_guard(visited, node).continue THEN visited
    ELSE visited_add(visited, node.name.value)

(***************************************************************************)
(* The call stack.                                                         *)
(***************************************************************************)
Frame(set) == [selection_set |-> set, i |-> 1]

Top == stack[Len(stack)]

Selections == selection_sets[Top.selection_set]

\* The loop of line 44 of the innermost call has a selection left.
InLoop == stack # <<>> /\ error = None /\ Top.i <= Len(Selections)

selection == Selections[Top.i]

selectionRef == NodeRef(Top.selection_set, Top.i)

Advance(st) == [st EXCEPT ![Len(st)].i = @ + 1]

\* The recursive call: the caller resumes at its next selection.
Call(st, set) == Append(Advance(st), Frame(set))

Returned == stack = <<>> /\ error = None

(***************************************************************************)
(* collect_fields, lines 44-85.                                            *)
(***************************************************************************)
\* Lines 45-49.
CollectField ==
    /\ InLoop
    /\ selection.kind = "field"
    /\ LET inc == should_include_node(variable_values, selection)
       IN  /\ fields' = IF inc
                        THEN setdefault_append(fields, get_field_entry_key(selection),
                                               selectionRef)
                        ELSE fields
           /\ collected' = IF inc THEN Append(collected, selectionRef) ELSE collected
           /\ last' = [kind |-> "field", node |-> selectionRef,
                       evaluated |-> <<"should_include_node">>,
                       included |-> inc, entered |-> FALSE,
                       visited_before |-> FALSE]
    /\ stack' = Advance(stack)
    /\ UNCHANGED <<selection_sets, fragments, runtime_type, visited_fragment_names,
                   error, expanded, excluded>>
    /\ UNCHANGED errorVars

\* Lines 50-63.
CollectInlineFragment ==
    /\ InLoop
    /\ selection.kind = "inline_fragment"
    /\ LET inc == should_include_node(variable_values, selection)
           enter == inc /\ does_fragment_condition_match(schema, selection, runtime_type)
       IN  /\ enter => Len(stack) < MaxDepth
           /\ stack' = IF enter THEN Call(stack, selection.selection_set.ref)
                       ELSE Advance(stack)
           /\ last' = [kind |-> "inline_fragment", node |-> selectionRef,
                       evaluated |-> IF inc
                                     THEN <<"should_include_node",
                                            "does_fragment_condition_match">>
                                     ELSE <<"should_include_node">>,
                       included |-> inc, entered |-> enter,
                       visited_before |-> FALSE]
    /\ UNCHANGED <<selection_sets, fragments, runtime_type, fields,
                   visited_fragment_names, error, collected, expanded, excluded>>
    /\ UNCHANGED errorVars

\* Lines 64-84.
CollectFragmentSpread ==
    /\ InLoop
    /\ selection.kind = "fragment_spread"
    /\ LET frag_name == selection.name.value
           guard == spread_guard(visited_fragment_names, selection)
           fragment == fragments_get(fragments, frag_name)
           enter == /\ ~guard.continue
                    /\ ~IsException(fragment)
                    /\ fragment # None
                    /\ does_fragment_condition_match(schema, fragment, runtime_type)
       IN  /\ enter => Len(stack) < MaxDepth
           /\ visited_fragment_names' =
                 spread_visited(visited_fragment_names, selection)
           /\ error' = IF ~guard.continue /\ IsException(fragment)
                       THEN fragment ELSE error
           /\ stack' = IF enter THEN Call(stack, fragment.selection_set.ref)
                       ELSE Advance(stack)
           /\ expanded' = IF enter THEN Append(expanded, frag_name) ELSE expanded
           /\ excluded' = IF "should_include_node" \in
                                {guard.evaluated[i] : i \in 1..Len(guard.evaluated)}
                              /\ guard.continue
                           THEN excluded \cup {frag_name} ELSE excluded
           /\ last' = [kind |-> "fragment_spread", node |-> selectionRef,
                       evaluated |-> guard.evaluated,
                       included |-> ~guard.continue, entered |-> enter,
                       visited_before |-> frag_name \in visited_fragment_names]
    /\ UNCHANGED <<selection_sets, fragments, runtime_type, fields, collected>>
    /\ UNCHANGED errorVars

\* Line 85: the loop of the innermost call is over.
Return ==
    /\ stack # <<>>
    /\ error = None
    /\ Top.i > Len(Selections)
    /\ stack' = SubSeq(stack, 1, Len(stack) - 1)
    /\ last' = [kind |-> "return", node |-> NodeRef(Top.selection_set, 0),
                evaluated |-> <<>>, included |-> FALSE, entered |-> FALSE,
                visited_before |-> FALSE]
    /\ UNCHANGED <<selection_sets, fragments, runtime_type, fields,
                   visited_fragment_names, error, collected, expanded, excluded>>
    /\ UNCHANGED errorVars

(***************************************************************************)
(* The documents explored.  Selection set 0 is the one collect_fields is   *)
(* called on; 1 and 2 are the bodies of the fragments F and G; 4 is the    *)
(* body of an inline fragment nested in a fragment; 4 + i is the body of   *)
(* the inline fragment standing at index i of selection set 0, each a copy *)
(* of the template Body(env, 3).  No fragment is named M.                  *)
(***************************************************************************)
Flags == {"none", "true", "false"}

\* The directives of a node: @skip(if: s) and @include(if: i), each optional.
Directives(s, i) ==
    (IF s = "none" THEN <<>> ELSE <<DirectiveNode("skip", s = "true")>>)
    \o (IF i = "none" THEN <<>> ELSE <<DirectiveNode("include", i = "true")>>)

AllDirectives == {Directives(s, i) : s \in Flags, i \in Flags}

TypeConditions == {"none", "Dog", "Cat", "Pet", "Feline", "Missing"}

TypeCondition(tc) == IF tc = "none" THEN None ELSE NamedTypeNode(tc)

Codes == {"a", "b", "a:c", "F", "G", "M", "I"}

\* The top-level selection at index pos: a field, an aliased field, a spread
\* or an inline fragment on tcI.
Item(code, d, tcI, pos) ==
    CASE code = "a"   -> FieldNode(None, "a", d)
      [] code = "b"   -> FieldNode(None, "b", d)
      [] code = "a:c" -> FieldNode(NameNode("a"), "c", d)
      [] code = "F"   -> FragmentSpreadNode("F", d)
      [] code = "G"   -> FragmentSpreadNode("G", d)
      [] code = "M"   -> FragmentSpreadNode("M", d)
      [] code = "I"   -> InlineFragmentNode(TypeCondition(tcI), d, 4 + pos)

Plain(name) == FieldNode(None, name, <<>>)

Spread(name) == FragmentSpreadNode(name, <<>>)

Environments == 1..3

\* 1: the fragments of the spec's example, F spread from G and from the
\*    inline fragment; 2: F and G spread themselves and each other;
\* 3: F spreads itself through an inline fragment, and spreads carry
\*    directives.
Body(env, set) ==
    CASE env = 1 /\ set = 1 -> <<Plain("c"), Plain("a")>>
      [] env = 1 /\ set = 2 -> <<Plain("b"), Spread("F"), Plain("e")>>
      [] env = 1 /\ set = 3 -> <<Plain("d"), Spread("F"), Plain("a")>>
      [] env = 2 /\ set = 1 -> <<Plain("c"), Spread("F"), Spread("G"), Plain("a")>>
      [] env = 2 /\ set = 2 -> <<FieldNode(NameNode("a"), "c", <<>>), Spread("F"),
                                 Spread("G"), Plain("e")>>
      [] env = 2 /\ set = 3 -> <<Spread("G"), Plain("b"), Spread("F")>>
      [] env = 3 /\ set = 1 -> <<InlineFragmentNode(None, <<>>, 4), Plain("c"),
                                 Spread("M")>>
      [] env = 3 /\ set = 2 -> <<FragmentSpreadNode("F", Directives("none", "false")),
                                 FieldNode(None, "e", Directives("true", "true")),
                                 Plain("b")>>
      [] env = 3 /\ set = 3 -> <<FieldNode(None, "a", Directives("none", "false")),
                                 Spread("G"), Plain("b")>>
      [] env = 3 /\ set = 4 -> <<Spread("F"), Plain("d"),
                                 FragmentSpreadNode("G", Directives("true", "none")),
                                 Spread("G"),
                                 FieldNode(NameNode("x"), "d", <<>>)>>
      [] OTHER -> <<>>

SetIds == 0..(4 + MaxLen)

FragmentNames == {"F", "G"}

SeqsUpTo(S, n) == UNION {[1..k -> S] : k \in 1..n}

\* The state collect_fields is called in: an empty field map, an empty
\* visited set, one frame for the top-level call.
InitCollect(top, env, tcF, rt) ==
    /\ selection_sets = [id \in SetIds |->
                            CASE id = 0 -> top
                              [] id = 3 -> <<>>
                              [] id > 4 -> IF id - 4 <= Len(top)
                                              /\ top[id - 4].kind = "inline_fragment"
                                           THEN Body(env, 3) ELSE <<>>
                              [] OTHER  -> Body(env, id)]
    /\ fragments = [n \in FragmentNames |->
                       IF n = "F"
                       THEN FragmentDefinitionNode("F", TypeCondition(tcF), 1)
                       ELSE FragmentDefinitionNode("G", NamedTypeNode("Dog"), 2)]
    /\ runtime_type = rt
    /\ fields = <<>>
    /\ visited_fragment_names = {}
    /\ stack = <<Frame(0)>>
    /\ error = None
    /\ collected = <<>>
    /\ expanded = <<>>
    /\ excluded = {}
    /\ last = [kind |-> "call", node |-> NodeRef(0, 0), evaluated |-> <<>>,
               included |-> FALSE, entered |-> FALSE, visited_before |-> FALSE]

\* No error object exists while collect_fields runs.
NoErrors ==
    /\ errs = <<>>
    /\ heap = <<>>
    /\ built = <<>>
    /\ mutated = [count |-> 0, who |-> 0]

\* Every selection set of up to MaxLen undirected selections, in every
\* environment, for both runtime types.
InitShapes ==
    \E codes \in SeqsUpTo(Codes, MaxLen), env \in Environments, rt \in ObjectTypes :
        InitCollect([i \in 1..Len(codes) |-> Item(codes[i], <<>>, "Pet", i)],
                    env, "Pet", rt)

\* Every pair of selections with every combination of directives on each.
InitDirectives ==
    \E c1 \in {"a", "F", "I"}, c2 \in {"a", "F", "I", "G"},
       d1 \in AllDirectives, d2 \in AllDirectives :
        InitCollect(<<Item(c1, d1, "none", 1), Item(c2, d2, "none", 2)>>, 1, "Dog",
                    schema.type_map["Dog"])

\* Every type condition on the inline fragment and on fragment F, for both
\* runtime types.
InitTypes ==
    \E tcI \in TypeConditions, tcF \in TypeConditions, rt \in ObjectTypes,
       top \in {<<"I">>, <<"F">>, <<"I", "F">>, <<"F", "I">>} :
        InitCollect([i \in 1..Len(top) |-> Item(top[i], <<>>, tcI, i)], 1, tcF, rt)

Init == (InitShapes \/ InitDirectives \/ InitTypes) /\ NoErrors

Next == CollectField \/ CollectInlineFragment \/ CollectFragmentSpread \/ Return

Spec == Init /\ [][Next]_vars

\* A call that can take a step takes it: the interpreter keeps running.
FairSpec == Spec /\ WF_vars(Next)

(***************************************************************************)
(* GraphQLError, as the tests of tests/error/test_graphql_error.py build,  *)
(* compare, format and mutate it.  A Python str, int or dict is a boxed    *)
(* value, so that it can stand where None can; a list is an object of the  *)
(* heap, referred to by its address.                                       *)
(***************************************************************************)
\* At most this many in-place mutations of a path are explored.
MaxMutations == 1

PyStr(s) == [str |-> s]

PyInt(n) == [int |-> n]

Dict(items) == [items |-> items]

\* The body of the test module's source: "{\n  field\n}\n".
source == [body |-> <<"{", "NL", " ", " ", "f", "i", "e", "l", "d", "NL", "}", "NL">>,
           name |-> "GraphQL request"]

\* language/location.py: the 1-indexed line and column of a 0-indexed offset.
get_location(src, position) ==
    LET breaks == {i \in 1..position : src.body[i] = "NL"}
        line_start == IF breaks = {} THEN 0
                      ELSE CHOOSE i \in breaks : \A j \in breaks : j <= i
    IN  [line |-> Cardinality(breaks) + 1, column |-> position + 1 - line_start]

\* The lists the caller holds before it builds an error: two distinct list
\* objects with equal contents, ["field", 1].
CallerLists == <<<<PyStr("field"), PyInt(1)>>, <<PyStr("field"), PyInt(1)>>>>

\* The arguments an error is built with.  A path is None, one of the
\* caller's lists, or a tuple.
Messages == {None, PyStr("msg")}

PositionLists == {None, <<4>>}

PathArguments ==
    {None, [list |-> 1], [list |-> 2], [tuple |-> <<PyStr("field"), PyInt(1)>>]}

ExtensionArguments ==
    {None, Dict(<<>>), Dict(<<[key |-> "foo", value |-> PyStr("bar")]>>)}

Arguments ==
    [message : Messages, positions : PositionLists, path : PathArguments,
     extensions : ExtensionArguments]

\* GraphQLError.__init__: a list given as path is kept as it is (e.path is
\* path); any other sequence is copied into a new list.
new_list_needed(args) == args.path # None /\ "tuple" \in DOMAIN args.path

heap_after_init(args, h) ==
    IF new_list_needed(args) THEN Append(h, args.path.tuple) ELSE h

GraphQLError(args, h) ==
    [message    |-> args.message,
     locations  |-> IF args.positions = None THEN None
                    ELSE [i \in 1..Len(args.positions) |->
                             get_location(source, args.positions[i])],
     path       |-> IF args.path = None THEN None
                    ELSE IF new_list_needed(args) THEN [ref |-> Len(h) + 1]
                    ELSE [ref |-> args.path.list],
     extensions |-> args.extensions]

\* The value of e.path now.
path_of(e, h) == IF e.path = None THEN None ELSE h[e.path.ref]

\* A variant that lists the extensions whenever they are not None.
formatted_with_empty_extensions(e, h) ==
    Dict(<<[key |-> "message",
            value |-> IF e.message = None THEN PyStr("An unknown error occurred.")
                      ELSE e.message]>>
         \o (IF e.locations # None
             THEN <<[key |-> "locations", value |-> e.locations]>> ELSE <<>>)
         \o (IF e.path # None
             THEN <<[key |-> "path", value |-> path_of(e, h)]>> ELSE <<>>)
         \o (IF e.extensions # None
             THEN <<[key |-> "extensions", value |-> e.extensions]>> ELSE <<>>))

\* GraphQLError.formatted: message, then locations, path and extensions when
\* there are any.
formatted(e, h) ==
    Dict(<<[key |-> "message",
            value |-> IF e.message = None THEN PyStr("An unknown error occurred.")
                      ELSE e.message]>>
         \o (IF e.locations # None
             THEN <<[key |-> "locations", value |-> e.locations]>> ELSE <<>>)
         \o (IF e.path # None
             THEN <<[key |-> "path", value |-> path_of(e, h)]>> ELSE <<>>)
         \o (IF e.extensions # None /\ e.extensions.items # <<>>
             THEN <<[key |-> "extensions", value |-> e.extensions]>> ELSE <<>>))

\* dict == dict: the same keys with equal values, whatever the order.
mapping_eq(m1, m2) ==
    /\ {m1.items[i].key : i \in 1..Len(m1.items)}
          = {m2.items[i].key : i \in 1..Len(m2.items)}
    /\ \A i \in 1..Len(m1.items), j \in 1..Len(m2.items) :
          m1.items[i].key = m2.items[j].key => m1.items[i].value = m2.items[j].value

\* A variant that leaves the path out of the comparison.
error_eq_without_path(e1, e2, h) ==
    /\ e1.message = e2.message
    /\ e1.locations = e2.locations
    /\ e1.extensions = e2.extensions

\* GraphQLError.__eq__ with another GraphQLError: message, locations, path
\* and extensions by value.
error_eq(e1, e2, h) ==
    /\ e1.message = e2.message
    /\ e1.locations = e2.locations
    /\ path_of(e1, h) = path_of(e2, h)
    /\ e1.extensions = e2.extensions

\* GraphQLError.__ne__
error_ne(e1, e2, h) == ~error_eq(e1, e2, h)

\* GraphQLError.__eq__ with a dict: the dict is the error's formatted mapping.
error_eq_mapping(e, m, h) == mapping_eq(formatted(e, h), m)

\* e = GraphQLError(message, None, source, positions, path, extensions=...)
NewError ==
    /\ Len(errs) < 2
    /\ \E args \in Arguments :
          /\ errs' = Append(errs, GraphQLError(args, heap))
          /\ heap' = heap_after_init(args, heap)
          /\ built' = Append(built,
                             [args |-> args,
                              path_value |-> path_of(GraphQLError(args, heap),
                                                     heap_after_init(args, heap))])
    /\ UNCHANGED mutated
    /\ UNCHANGED collectVars

\* e.path[i] = v, with v another value than the one held (test line 170).
SetPathItem ==
    /\ mutated.count < MaxMutations
    /\ \E k \in 1..Len(errs) :
          /\ errs[k].path # None
          /\ \E i \in 1..Len(heap[errs[k].path.ref]), v \in {PyInt(1), PyInt(2)} :
                /\ heap[errs[k].path.ref][i] # v
                /\ heap' = [heap EXCEPT ![errs[k].path.ref][i] = v]
                /\ mutated' = [count |-> mutated.count + 1, who |-> k]
    /\ UNCHANGED <<errs, built>>
    /\ UNCHANGED collectVars

\* collect_fields is not running while the errors are built and compared.
NoCollection ==
    /\ selection_sets = <<>>
    /\ fragments = <<>>
    /\ runtime_type = None
    /\ fields = <<>>
    /\ visited_fragment_names = {}
    /\ stack = <<>>
    /\ error = None
    /\ collected = <<>>
    /\ expanded = <<>>
    /\ excluded = {}
    /\ last = [kind |-> "none", node |-> NodeRef(0, 0), evaluated |-> <<>>,
               included |-> FALSE, entered |-> FALSE, visited_before |-> FALSE]

ErrInit ==
    /\ NoCollection
    /\ errs = <<>>
    /\ heap = CallerLists
    /\ built = <<>>
    /\ mutated = [count |-> 0, who |-> 0]

ErrNext == NewError \/ SetPathItem

ErrSpec == ErrInit /\ [][ErrNext]_vars

(***************************************************************************)
(* Vocabulary of the properties.                                           *)
(***************************************************************************)
Range(seq) == {seq[i] : i \in 1..Len(seq)}

NodeAt(ref) == selection_sets[ref.set][ref.idx]

\* The k-th smallest element of a finite set of integers.
Kth(S, k) == CHOOSE i \in S : Cardinality({j \in S : j <= i}) = k

\* The elements of seq at the indices in S, in order.
AtIndices(seq, S) == [k \in 1..Cardinality(S) |-> seq[Kth(S, k)]]

\* The distinct elements of seq in the order each first occurs in it.
FirstOccurrences(seq) ==
    AtIndices(seq, {i \in 1..Len(seq) : \A j \in 1..(i - 1) : seq[j] # seq[i]})

\* Alias if present, else field name, read off the node.
ResponseKey(ref) ==
    LET node == NodeAt(ref)
    IN  IF node.alias = None THEN node.name.value ELSE node.alias.value

\* "true", "false" or "none": the if argument of the named directive.
FlagOf(node, directive) ==
    IF \E i \in 1..Len(node.directives) :
          /\ node.directives[i].name.value = directive
          /\ node.directives[i].arguments["if"]
    THEN "true"
    ELSE IF \E i \in 1..Len(node.directives) :
               node.directives[i].name.value = directive
         THEN "false"
         ELSE "none"

\* The inclusion rule as the claims state it.
Allowed(node) ==
    CASE FlagOf(node, "skip") = "true"     -> FALSE
      [] FlagOf(node, "include") = "false" -> FALSE
      [] OTHER                             -> TRUE

\* The type-condition rule as the claims state it.
Applies(type_condition, type_) ==
    \/ type_condition = None
    \/ /\ type_condition # None
       /\ type_condition.name.value \in DOMAIN schema.type_map
       /\ LET t == schema.type_map[type_condition.name.value]
          IN  \/ t.name = type_.name
              \/ /\ t.kind \in {"interface", "union"}
                 /\ type_.name \in t.possible_types

\* The depth-first walk of the selections from index i of a selection set,
\* in list order, the body of a fragment inlined where its first allowed
\* spread stands; the nodes in `absent` are treated as not being there.
RECURSIVE Walk(_, _, _, _)
Walk(set, i, seen, absent) ==
    IF i > Len(selection_sets[set]) THEN [nodes |-> <<>>, seen |-> seen]
    ELSE
    LET node == selection_sets[set][i]
        ref == NodeRef(set, i)
        skipIt == ref \in absent \/ ~Allowed(node)
    IN  CASE skipIt -> Walk(set, i + 1, seen, absent)
          [] ~skipIt /\ node.kind = "field" ->
                LET rest == Walk(set, i + 1, seen, absent)
                IN  [nodes |-> <<ref>> \o rest.nodes, seen |-> rest.seen]
          [] ~skipIt /\ node.kind = "inline_fragment" ->
                IF Applies(node.type_condition, runtime_type)
                THEN LET body == Walk(node.selection_set.ref, 1, seen, absent)
                         rest == Walk(set, i + 1, body.seen, absent)
                     IN  [nodes |-> body.nodes \o rest.nodes, seen |-> rest.seen]
                ELSE Walk(set, i + 1, seen, absent)
          [] ~skipIt /\ node.kind = "fragment_spread" ->
                LET name == node.name.value
                    now == seen \cup {name}
                IN  IF name \in seen THEN Walk(set, i + 1, seen, absent)
                    ELSE IF /\ name \in DOMAIN fragments
                            /\ Applies(fragments[name].type_condition, runtime_type)
                    THEN LET body == Walk(fragments[name].selection_set.ref, 1,
                                          now, absent)
                             rest == Walk(set, i + 1, body.seen, absent)
                         IN  [nodes |-> body.nodes \o rest.nodes, seen |-> rest.seen]
                    ELSE Walk(set, i + 1, now, absent)

\* The field map a sequence of field nodes gives: keys in first-occurrence
\* order, each with its nodes in order.
GroupByKey(nodes) ==
    LET keys == FirstOccurrences([i \in 1..Len(nodes) |-> ResponseKey(nodes[i])])
    IN  [k \in 1..Len(keys) |->
            [key |-> keys[k],
             value |-> AtIndices(nodes, {i \in 1..Len(nodes) :
                                            ResponseKey(nodes[i]) = keys[k]})]]

AllRefs ==
    UNION {{NodeRef(set, i) : i \in 1..Len(selection_sets[set])} : set \in SetIds}

\* The spreads naming no fragment of the mapping.
UnknownSpreads ==
    {r \in AllRefs :
        /\ NodeAt(r).kind = "fragment_spread"
        /\ NodeAt(r).name.value \notin DOMAIN fragments}

(***************************************************************************)
(* The claims.                                                             *)
(***************************************************************************)

\* C1: at every point of a collect_fields call started with an empty field
\* map and an empty visited set, the keys of the field map are the response
\* keys of the appended fields in the order each was first appended, and each
\* key's list holds the appended fields of that key in the order they were
\* appended; when the call returns, the appended fields are exactly those of
\* the depth-first walk in selection-list order with fragment bodies inlined
\* at the spread.
C1_KeyOrder ==
    /\ fields = GroupByKey(collected)
    /\ Returned => collected = Walk(0, 1, {}, {}).nodes

\* The spec's example: { a b ...F } with fragment F { c a } gives the keys
\* a, b, c, and a holds both a fields, the top-level one first.
C1_Witness ==
    /\ Returned
    /\ Len(selection_sets[0]) = 3
    /\ selection_sets[0][3].kind = "fragment_spread"
    /\ dict_keys(fields) = <<"a", "b", "c">>
    /\ dict_at(fields, "a") = <<NodeRef(0, 1), NodeRef(1, 2)>>

\* C2: within one top-level call the body of each named fragment is entered
\* at most once, and no field node is appended to the field map twice.
C2_ExpandedOnce ==
    /\ \A i, j \in 1..Len(expanded) : expanded[i] = expanded[j] => i = j
    /\ \A i, j \in 1..Len(collected) : collected[i] = collected[j] => i = j

\* A spread nested in a fragment or inline fragment is passed over because
\* its fragment's body was entered before.
C2_Witness ==
    /\ last.kind = "fragment_spread"
    /\ last.node.set # 0
    /\ last.visited_before
    /\ NodeAt(last.node).name.value \in Range(expanded)
    /\ Len(collected) > 0

\* C3: every call of collect_fields started with an empty visited set
\* returns, also when fragments spread themselves or each other.
C3_Terminates == <>Returned

\* The call returned after entering a fragment that spreads itself and a
\* fragment that spreads it back.
C3_Witness ==
    /\ Returned
    /\ \E i \in 1..Len(selection_sets[1]) :
          /\ selection_sets[1][i].kind = "fragment_spread"
          /\ selection_sets[1][i].name.value = "F"
    /\ \E i \in 1..Len(selection_sets[2]) :
          /\ selection_sets[2][i].kind = "fragment_spread"
          /\ selection_sets[2][i].name.value = "F"
    /\ {"F", "G"} \subseteq Range(expanded)

\* C4: whenever should_include_node is evaluated on a selection, it is false
\* if the selection carries @skip(if: true), whatever @include it carries;
\* false if it carries @include(if: false); true in every other case.
C4_SkipPrecedence ==
    "should_include_node" \in Range(last.evaluated) =>
        LET node == NodeAt(last.node)
        IN  /\ FlagOf(node, "skip") = "true" => ~last.included
            /\ FlagOf(node, "include") = "false" => ~last.included
            /\ (FlagOf(node, "skip") # "true" /\ FlagOf(node, "include") # "false")
                  => last.included

\* A fragment spread with @skip(if: true) @include(if: true) was left out.
C4_Witness ==
    /\ last.kind = "fragment_spread"
    /\ "should_include_node" \in Range(last.evaluated)
    /\ FlagOf(NodeAt(last.node), "skip") = "true"
    /\ FlagOf(NodeAt(last.node), "include") = "true"
    /\ ~last.included

\* C5: no call raises, and the field map a call returns is the one of the
\* same document without the spreads that name no fragment of the mapping; a
\* step over such a spread enters nothing.
C5_UnknownSpread ==
    /\ error = None
    /\ (last.kind = "fragment_spread" /\ last.node \in UnknownSpreads)
          => ~last.entered
    /\ Returned => fields = GroupByKey(Walk(0, 1, {}, UnknownSpreads).nodes)

\* The call returned a non-empty field map after stepping over a spread of M,
\* which is no fragment, and went on to collect a field after it.
C5_Witness ==
    /\ Returned
    /\ \E r \in UnknownSpreads :
          /\ r.set = 0
          /\ "M" \in visited_fragment_names
          /\ \E k \in 1..Len(collected) :
                collected[k].set = 0 /\ collected[k].idx > r.idx

\* C6: an inline fragment or a defined fragment whose directives allow it is
\* entered exactly when it has no type condition, or the condition names the
\* runtime type, or it names an interface or union of which the runtime type
\* is a possible type.
C6_ConditionMatch ==
    /\ (last.kind = "inline_fragment" /\ last.included) =>
          last.entered = Applies(NodeAt(last.node).type_condition, runtime_type)
    /\ (/\ last.kind = "fragment_spread"
        /\ last.included
        /\ NodeAt(last.node).name.value \in DOMAIN fragments) =>
          last.entered =
             Applies(fragments[NodeAt(last.node).name.value].type_condition,
                     runtime_type)

\* A fragment on the interface Pet was entered for the runtime type Dog, in
\* a document whose inline fragment on the sibling type Cat was not.
C6_Witness ==
    /\ last.kind = "fragment_spread"
    /\ last.entered
    /\ runtime_type.name = "Dog"
    /\ fragments["F"].type_condition = NamedTypeNode("Pet")
    /\ NodeAt(last.node).name.value = "F"
    /\ selection_sets[0][1].kind = "inline_fragment"
    /\ selection_sets[0][1].type_condition = NamedTypeNode("Cat")
    /\ collected = <<>>

\* C9 as stated: for every fragment spread the directive filter is evaluated,
\* and it is evaluated before the visited set is looked at.
C9_DirectivesFirst ==
    last.kind = "fragment_spread" =>
        /\ "should_include_node" \in Range(last.evaluated)
        /\ last.evaluated[1] = "should_include_node"

\* C9 amended: for every fragment spread the visited set is looked at first;
\* the directive filter is evaluated exactly when the name is not yet
\* visited, and after the visited check.
C9_VisitedFirst ==
    last.kind = "fragment_spread" =>
        /\ last.evaluated[1] = "in_visited"
        /\ ("should_include_node" \in Range(last.evaluated)) <=> ~last.visited_before
        /\ ~last.visited_before =>
              last.evaluated = <<"in_visited", "should_include_node">>

\* A spread carrying a directive was passed over as visited without its
\* directives being evaluated.
C9_Witness ==
    /\ last.kind = "fragment_spread"
    /\ last.visited_before
    /\ NodeAt(last.node).directives # <<>>
    /\ last.evaluated = <<"in_visited">>

\* C10: a step over a fragment spread whose directives exclude it changes
\* neither the visited set nor the field map; a step over a spread whose
\* directives allow it and whose name is not visited adds the name to the
\* visited set and, if the fragment exists and its type condition matches,
\* enters the fragment's body.
C10_ExcludedSpread ==
    /\ [][(InLoop /\ selection.kind = "fragment_spread" /\ ~Allowed(selection))
            => (visited_fragment_names' = visited_fragment_names
                /\ fields' = fields)]_vars
    /\ [][(/\ InLoop
           /\ selection.kind = "fragment_spread"
           /\ Allowed(selection)
           /\ selection.name.value \notin visited_fragment_names)
            => (/\ visited_fragment_names' =
                      visited_fragment_names \cup {selection.name.value}
                /\ (/\ selection.name.value \in DOMAIN fragments
                    /\ Applies(fragments[selection.name.value].type_condition,
                               runtime_type))
                      => stack' = Call(stack,
                                       fragments[selection.name.value].selection_set.ref))]_vars

\* A spread of F was excluded by its directives, a later spread of F was
\* allowed, and the fields of F's body were collected.
C10_Witness ==
    /\ Returned
    /\ "F" \in excluded
    /\ "F" \in Range(expanded)
    /\ {NodeRef(1, 1), NodeRef(1, 2)} \subseteq Range(collected)

\* The arguments two errors were built with are the same: message, positions
\* (hence locations), extensions, and the value of the path.
SameArguments ==
    /\ Len(built) = 2
    /\ built[1].args.message = built[2].args.message
    /\ built[1].args.positions = built[2].args.positions
    /\ built[1].args.extensions = built[2].args.extensions
    /\ built[1].path_value = built[2].path_value

\* e1 and e2 compare equal, and each equals its own and the other's
\* formatted mapping.
AllEqual ==
    /\ error_eq(errs[1], errs[2], heap)
    /\ error_eq(errs[2], errs[1], heap)
    /\ ~error_ne(errs[1], errs[2], heap)
    /\ \A k, n \in {1, 2} :
          error_eq_mapping(errs[k], formatted(errs[n], heap), heap)

\* The error whose path was mutated equals neither the other error nor the
\* other's formatted mapping, and the other does not equal the mutated
\* error's formatted mapping.
EqualityBroken ==
    LET m == mutated.who
        o == 3 - mutated.who
    IN  /\ ~error_eq(errs[m], errs[o], heap)
        /\ ~error_eq(errs[o], errs[m], heap)
        /\ error_ne(errs[m], errs[o], heap)
        /\ ~error_eq_mapping(errs[m], formatted(errs[o], heap), heap)
        /\ ~error_eq_mapping(errs[o], formatted(errs[m], heap), heap)

\* C7 as stated: two errors built with the same arguments compare equal and
\* equal their formatted mappings; once the path list of one has had an
\* element replaced, equality with the other is broken.
C7_MutationBreaksEquality ==
    /\ (SameArguments /\ mutated.count = 0) => AllEqual
    /\ (SameArguments /\ mutated.count = 1) => EqualityBroken

\* C7 amended: the same, for two errors that do not hold the same list
\* object as their path.
C7_MutationBreaksEqualityOfDistinctLists ==
    /\ (SameArguments /\ mutated.count = 0) => AllEqual
    /\ (SameArguments /\ mutated.count = 1 /\ errs[1].path # errs[2].path)
          => EqualityBroken

\* Two errors built with equal paths in two list objects, one of them mutated
\* (test is_comparable, lines 160-174).
C7_Witness ==
    /\ SameArguments
    /\ mutated.count = 1
    /\ mutated.who = 2
    /\ errs[1].path = [ref |-> 1]
    /\ errs[2].path = [ref |-> 2]
    /\ heap[2] = <<PyStr("field"), PyInt(2)>>
    /\ heap[1] = <<PyStr("field"), PyInt(1)>>

\* C8: the formatted mapping of every error has the key message, with the
\* error's message or the default text; the key locations exactly when the
\* error has locations, path exactly when a path was given, extensions
\* exactly when extensions were given and are not empty; no other key; and
\* the keys stand in the order message, locations, path, extensions.
C8_FormattedKeys ==
    \A k \in 1..Len(errs) :
        LET f == formatted(errs[k], heap)
            given == built[k].args
            present(key) ==
                CASE key = "message"    -> TRUE
                  [] key = "locations"  -> errs[k].locations # None
                  [] key = "path"       -> given.path # None
                  [] key = "extensions" -> /\ given.extensions # None
                                           /\ given.extensions.items # <<>>
        IN  /\ [i \in 1..Len(f.items) |-> f.items[i].key]
                  = SelectSeq(<<"message", "locations", "path", "extensions">>, present)
            /\ f.items[1].value = IF given.message = None
                                  THEN PyStr("An unknown error occurred.")
                                  ELSE given.message

\* An error built with no message, a path and empty extensions formats to
\* the default message and the path; another formats to all four keys.
C8_Witness ==
    /\ Len(errs) = 2
    /\ built[1].args = [message |-> None, positions |-> None, path |-> [list |-> 1],
                        extensions |-> Dict(<<>>)]
    /\ formatted(errs[1], heap) =
          Dict(<<[key |-> "message", value |-> PyStr("An unknown error occurred.")],
                 [key |-> "path", value |-> <<PyStr("field"), PyInt(1)>>]>>)
    /\ Len(formatted(errs[2], heap).items) = 4

====
